---- MODULE Spec2Model ----
(***************************************************************************)
(* Model of src/services/geminiService.ts: the provider dispatch of the    *)
(* five exported operations, the Gemini model-discovery cascade with its   *)
(* paginated attempts, and the string helpers the discovery and the       *)
(* OpenAI-compatible adapters apply to the configuration.                 *)
(*                                                                         *)
(* Strings are sequences of atoms.  For URLs and model names an atom is a  *)
(* single character ("/", " ", "a", "b") or a literal run of characters    *)
(* that the code matches as a whole ("v1beta", "models"); for image sizes  *)
(* an atom is one character.                                               *)
(***************************************************************************)
EXTENDS Integers, Sequences, FiniteSets, Bags, TLC

VARIABLES
    op,          \* the exported operation that was called
    config,      \* AIConfig: provider, apiKey, baseUrl, imageModel
    pc,          \* position of the call
    endpoints,   \* listModels: the candidate endpoints (line 143)
    epIdx,       \* listModels: index of the endpoint the for-loop is at
    models,      \* listModels: the attempt's models array, as a bag of names
    pageToken,   \* listModels: the attempt's pageToken
    guard,       \* listModels: the attempt's guard counter
    lastError,   \* listModels: lastError
    result,      \* the value the call returned
    error,       \* the error the call threw
    requests,    \* outbound requests issued by the current attempt (or call)
    tried,       \* the (endpoint, auth) attempts that issued a request, in order
    sent,        \* raw names the server sent to the current attempt
    failedNames, \* names accumulated by attempts that then failed
    arg,         \* input of the pure function under check
    ret,         \* what the function returned
    applied      \* which function was applied

vars == <<op, config, pc, endpoints, epIdx, models, pageToken, guard, lastError,
          result, error, requests, tried, sent, failedNames, arg, ret, applied>>

callVars == <<op, config, pc, endpoints, epIdx, models, pageToken, guard, lastError,
              result, error, requests, tried, sent, failedNames>>

pureVars == <<arg, ret, applied>>

----------------------------------------------------------------------------
(* Bounds of the model *)

MaxUrlLen == 4       \* longest base URL, in atoms
MaxSizeLen == 5      \* longest image size string, in characters
BigPageSize == 250   \* entries of the large page a server may return

(* Constants of the program *)

MaxPages == 20       \* guard > 20
MaxModels == 500     \* models.length > 500

----------------------------------------------------------------------------
(* JavaScript values *)

Undefined == << "<undefined>" >>

Truthy(s) == s # Undefined /\ s # <<>>

UrlAtoms == {"/", " ", "a", "v1beta"}

SizeChars == {"1", "0", "2", "4", "6", "9", ":", "x"}

StringsOver(A, n) == UNION { [1..k -> A] : k \in 0..n }

IsSpace(c) == c = " " \/ c = "\n"

RECURSIVE TrimStart(_)
TrimStart(s) == IF s # <<>> /\ IsSpace(Head(s)) THEN TrimStart(Tail(s)) ELSE s

RECURSIVE TrimEnd(_)
TrimEnd(s) ==
    IF s # <<>> /\ IsSpace(s[Len(s)]) THEN TrimEnd(SubSeq(s, 1, Len(s) - 1)) ELSE s

\* String.prototype.trim
Trim(s) == TrimEnd(TrimStart(s))

\* String.prototype.includes
Includes(s, sub) == \E i \in 1..(Len(s) - Len(sub) + 1) : SubSeq(s, i, i + Len(sub) - 1) = sub

\* s.replace(/\/$/, '')
StripTrailingSlash(s) ==
    IF s # <<>> /\ s[Len(s)] = "/" THEN SubSeq(s, 1, Len(s) - 1) ELSE s

OpenAIDefaultBase == <<"https://api.openai.com", "/", "v1">>

GeminiDefaultEndpoint ==
    <<"https://generativelanguage.googleapis.com", "/", "v1beta", "/", "models">>

\* config.baseUrl ? config.baseUrl.replace(/\/$/, '') : 'https://api.openai.com/v1'
normalizeBaseUrl(url, default) == IF Truthy(url) THEN StripTrailingSlash(url) ELSE default

\* config.baseUrl && config.baseUrl.trim() !== '' ? config.baseUrl.trim().replace(/\/$/, '') : ''
customBase(url) ==
    IF Truthy(url) /\ Trim(url) # <<>> THEN StripTrailingSlash(Trim(url)) ELSE <<>>

\* /\/v1beta(\/|$)/.test(base)
HasV1betaSegment(base) ==
    \E i \in 1..(Len(base) - 1) :
        /\ base[i] = "/"
        /\ base[i + 1] = "v1beta"
        /\ (i + 1 = Len(base) \/ base[i + 2] = "/")

\* listModels, lines 142-153: the candidate endpoints
GeminiEndpoints(url) ==
    LET base == customBase(url)
    IN IF Truthy(base)
       THEN << base \o <<"/", "models">> >>
            \o (IF ~HasV1betaSegment(base)
                THEN << base \o <<"/", "v1beta", "/", "models">> >>
                ELSE <<>>)
       ELSE << GeminiDefaultEndpoint >>

\* callOpenAIImage, lines 48-52: the size sent to the provider
OpenAIImageSize(size) ==
    IF Includes(size, <<"1", "0", "2", "4">>) THEN "1024x1024"
    ELSE IF size = <<"1", "6", ":", "9">> THEN "1792x1024"
    ELSE "1024x1024"

----------------------------------------------------------------------------
(* Model names and the discovery helpers *)

\* name.replace(/^models\//, '')
stripGeminiModelPrefix(name) ==
    IF Len(name) >= 2 /\ name[1] = "models" /\ name[2] = "/"
    THEN SubSeq(name, 3, Len(name))
    ELSE name

Rank(c) ==
    CASE c = " " -> 0
      [] c = "/" -> 1
      [] c = "a" -> 2
      [] c = "b" -> 3
      [] OTHER -> 4

RECURSIVE Before(_, _)
\* a.localeCompare(b) < 0, on the atoms of the model
Before(a, b) ==
    IF a = <<>> THEN b # <<>>
    ELSE IF b = <<>> THEN FALSE
    ELSE IF Head(a) = Head(b) THEN Before(Tail(a), Tail(b))
    ELSE Rank(Head(a)) < Rank(Head(b))

RECURSIVE SortedSeq(_)
SortedSeq(S) ==
    IF S = {} THEN <<>>
    ELSE LET least == CHOOSE x \in S : \A y \in S \ {x} : Before(x, y)
         IN <<least>> \o SortedSeq(S \ {least})

\* Array.from(new Set(models.map(m => m.trim()).filter(Boolean))).sort(localeCompare)
dedupeAndSort(bag) == SortedSeq({ Trim(m) : m \in BagToSet(bag) } \ {<<>>})

RECURSIVE CountOf(_, _, _)
CountOf(page, names, s) ==
    IF names = {} THEN 0
    ELSE LET r == CHOOSE x \in names : TRUE
         IN (IF stripGeminiModelPrefix(r) = s THEN page[r] ELSE 0)
            + CountOf(page, names \ {r}, s)

\* (data?.models || []).map(m => stripGeminiModelPrefix(m?.name || '')).filter(Boolean)
PageModels(page) ==
    LET raw == BagToSet(page)
        kept == { stripGeminiModelPrefix(r) : r \in raw } \ {<<>>}
    IN [s \in kept |-> CountOf(page, raw, s)]

\* mutation: an exit test without the count of accumulated entries
GuardOnlyBreaks(g, n) == g > MaxPages

\* mutation: an exit test without the page guard
CountOnlyBreaks(g, n) == n > MaxModels

\* the loop's exit test, lines 165 and 197: guard > 20 || models.length > 500
LoopBreaks(g, n) == g > MaxPages \/ n > MaxModels

\* mutation: one models array shared by the attempts
CarriedModels(previous) == previous

\* const models: string[] = [] at the head of each try block (lines 159, 191)
FreshModels(previous) == EmptyBag

----------------------------------------------------------------------------
(* Errors *)

Null == [type |-> "null", origin |-> <<>>, cause |-> "none", hint |-> FALSE]

\* formatNetworkError: the hint is appended to a "Failed to fetch" message
formatNetworkError(cause) == cause = "network"

ConfigError == [type |-> "config", origin |-> <<>>, cause |-> "apiKey", hint |-> FALSE]

UnknownError == [type |-> "unknown", origin |-> <<>>, cause |-> "none", hint |-> FALSE]

\* new Error(`Gemini ...: ${formatNetworkError(e)}`), lines 186 and 223;
\* origin records the attempt whose catch block built the error
GeminiListError(ep, auth, cause) ==
    [type |-> "GeminiList", origin |-> <<ep, auth>>, cause |-> cause,
     hint |-> formatNetworkError(cause)]

\* new Error(`OpenAI ...: ${formatNetworkError(e)}`), line 137
OpenAIListError(cause) ==
    [type |-> "OpenAIList", origin |-> <<>>, cause |-> cause,
     hint |-> formatNetworkError(cause)]

AdapterError(type, cause) == [type |-> type, origin |-> <<>>, cause |-> cause, hint |-> FALSE]

\* mutation: a catch block that keeps the first error
KeepFirstError(previous, new) == IF previous = Null THEN new ELSE previous

\* lastError = new Error(...) in a catch block, lines 186 and 223
CatchError(previous, new) == new

\* mutation: a test that lets the empty key through
OnlyMissingApiKey(cfg) == cfg.apiKey = Undefined

\* if (!config.apiKey), lines 114, 237, 272, 308, 376
MissingApiKey(cfg) == ~Truthy(cfg.apiKey)

----------------------------------------------------------------------------
(* What the servers may answer *)

EmptyPage == EmptyBag

\* a prefixed name, an entry without a name, and the same name padded with blanks
SmallPage == (<<"models", "/", "a">> :> 1) @@ (<<>> :> 1) @@ (<<" ", "a", " ">> :> 1)

BigPage == (<<"models", "/", "b">> :> BigPageSize)

Pages == {EmptyPage, SmallPage, BigPage}

Tokens == {Undefined, <<>>, <<"t">>}

FailureKinds == {"http", "network", "parse"}

Failure(kind) == [kind |-> kind, models |-> EmptyBag, nextPageToken |-> Undefined]

ListResponses ==
    { [kind |-> "ok", models |-> p, nextPageToken |-> t] : p \in Pages, t \in Tokens }
    \cup { Failure(k) : k \in FailureKinds }

----------------------------------------------------------------------------
(* The exported operations *)

Ops == {"listModels", "generateChatResponse", "generateFormattedContent",
        "generateImage", "generateThemeCSS"}

Providers == {"gemini", "openai"}

ApiKeys == {Undefined, <<>>, <<"k">>}

\* base URLs of a call: none, a plain one, one that already names /v1beta
CallBaseUrls == {Undefined, <<"a">>, <<"a", "/", "v1beta">>}

ImageModels == {Undefined, <<"my-", "imagen">>, <<"flash-image">>}

Init ==
    /\ op \in Ops
    /\ config \in [provider : Providers, apiKey : ApiKeys, baseUrl : CallBaseUrls,
                   imageModel : ImageModels]
    /\ (op # "generateImage" => config.imageModel = Undefined)
    /\ (op # "listModels" \/ config.provider = "openai" => config.baseUrl = Undefined)
    /\ pc = "start"
    /\ endpoints = <<>>
    /\ epIdx = 0
    /\ models = EmptyBag
    /\ pageToken = Undefined
    /\ guard = 0
    /\ lastError = Null
    /\ result = <<>>
    /\ error = Null
    /\ requests = 0
    /\ tried = <<>>
    /\ sent = {}
    /\ failedNames = {}
    /\ arg = <<>>
    /\ ret = <<>>
    /\ applied = "none"

Throw(e) ==
    /\ pc' = "threw"
    /\ error' = e
    /\ UNCHANGED result

Return(v) ==
    /\ pc' = "returned"
    /\ result' = v
    /\ UNCHANGED error

\* mutation: a failed request is issued once more
RetryOnce(at, n) == IF n < 2 THEN at ELSE "threw"

\* the position after a request that failed, lines 36-39, 69-72, 127-138, 265-268
AfterFailedRequest(at, n) == "threw"

FailRequest(at, e) ==
    /\ pc' = AfterFailedRequest(at, requests + 1)
    /\ error' = IF AfterFailedRequest(at, requests + 1) = "threw" THEN e ELSE error
    /\ UNCHANGED result

\* mutation: a failed attempt is followed by the next endpoint at once
SkipHeaderAfterCatch(auth, ep, n) ==
    IF ep < n THEN [pc |-> "queryInit", epIdx |-> ep + 1]
    ELSE [pc |-> "throwLast", epIdx |-> ep]

\* where the for loop goes after an attempt's catch block (lines 156-225)
AfterCatch(auth, ep, n) ==
    IF auth = "query"
    THEN [pc |-> "headerInit", epIdx |-> ep]
    ELSE IF ep < n THEN [pc |-> "queryInit", epIdx |-> ep + 1]
    ELSE [pc |-> "throwLast", epIdx |-> ep]

\* listModels lines 113-155, up to the first request
listModels ==
    /\ pc = "start"
    /\ op = "listModels"
    /\ IF MissingApiKey(config)
       THEN /\ Throw(ConfigError)
            /\ UNCHANGED <<endpoints, epIdx, lastError>>
       ELSE IF config.provider = "openai"
       THEN /\ pc' = "openaiModels"
            /\ UNCHANGED <<endpoints, epIdx, lastError, result, error>>
       ELSE /\ endpoints' = GeminiEndpoints(config.baseUrl)
            /\ epIdx' = 1
            /\ lastError' = Null
            /\ pc' = "queryInit"
            /\ UNCHANGED <<result, error>>
    /\ UNCHANGED <<op, config, models, pageToken, guard, requests, tried, sent,
                   failedNames, pureVars>>

\* listModels lines 118-138: the OpenAI-compatible listing
OpenAIListModels ==
    /\ pc = "openaiModels"
    /\ requests' = requests + 1
    /\ \E resp \in ListResponses :
         IF resp.kind = "ok"
         THEN Return(dedupeAndSort(resp.models))
         ELSE FailRequest("openaiModels", OpenAIListError(resp.kind))
    /\ UNCHANGED <<op, config, endpoints, epIdx, models, pageToken, guard, lastError,
                   tried, sent, failedNames, pureVars>>

\* the head of a try block: lines 159-161 and 191-193
AttemptInit(loop) ==
    /\ pc' = loop
    /\ models' = FreshModels(models)
    /\ pageToken' = Undefined
    /\ guard' = 0
    /\ requests' = 0
    /\ sent' = {}
    /\ UNCHANGED <<op, config, endpoints, epIdx, lastError, result, error, tried,
                   failedNames, pureVars>>

\* one pass of a do-while body, through its request: lines 163-187 and 195-224
Page(auth) ==
    /\ guard' = guard + 1
    /\ IF LoopBreaks(guard + 1, BagCardinality(models))
       THEN /\ Return(dedupeAndSort(models))
            /\ UNCHANGED <<models, pageToken, lastError, requests, tried, sent,
                           failedNames, epIdx>>
       ELSE /\ requests' = requests + 1
            /\ tried' = IF tried # <<>> /\ tried[Len(tried)] = <<epIdx, auth>>
                        THEN tried
                        ELSE Append(tried, <<epIdx, auth>>)
            /\ \E resp \in ListResponses :
                 IF resp.kind = "ok"
                 THEN /\ models' = models (+) PageModels(resp.models)
                      /\ pageToken' = resp.nextPageToken
                      /\ sent' = sent \cup BagToSet(resp.models)
                      /\ IF Truthy(resp.nextPageToken)
                         THEN UNCHANGED <<pc, result, error>>
                         ELSE Return(dedupeAndSort(models (+) PageModels(resp.models)))
                      /\ UNCHANGED <<lastError, failedNames, epIdx>>
                 ELSE /\ lastError' =
                            CatchError(lastError, GeminiListError(epIdx, auth, resp.kind))
                      /\ failedNames' = failedNames \cup BagToSet(models)
                      /\ pc' = AfterCatch(auth, epIdx, Len(endpoints)).pc
                      /\ epIdx' = AfterCatch(auth, epIdx, Len(endpoints)).epIdx
                      /\ UNCHANGED <<models, pageToken, sent, result, error>>
    /\ UNCHANGED <<op, config, endpoints, pureVars>>

\* lines 158-161: the query-parameter attempt begins
QueryAttemptInit ==
    /\ pc = "queryInit"
    /\ AttemptInit("query")

\* lines 163-187: one page of the query-parameter attempt
QueryParamPage ==
    /\ pc = "query"
    /\ Page("query")

\* lines 190-193: the header attempt begins
HeaderAttemptInit ==
    /\ pc = "headerInit"
    /\ AttemptInit("header")

\* lines 195-224: one page of the header attempt
HeaderPage ==
    /\ pc = "header"
    /\ Page("header")

\* listModels line 227
ThrowLastError ==
    /\ pc = "throwLast"
    /\ Throw(IF lastError # Null THEN lastError ELSE UnknownError)
    /\ UNCHANGED <<op, config, endpoints, epIdx, models, pageToken, guard, lastError,
                   requests, tried, sent, failedNames, pureVars>>

----------------------------------------------------------------------------
(* The adapters and the four content operations *)

ChatContents == {<<>>, <<"text">>, <<"[fence]css", "\n", "body{}", "\n", "[fence]">>}

CallFailure(kind) == [kind |-> kind, content |-> <<>>, inline |-> "none"]

ChatResponses ==
    { [kind |-> "ok", content |-> c, inline |-> "none"] : c \in ChatContents }
    \cup { CallFailure(k) : k \in {"http", "network"} }

\* data.data[0]: a b64_json payload, a url, or neither
ImageResponses ==
    { [kind |-> "ok", content |-> c, inline |-> "none"] : c \in {<<"b64">>, <<"url">>, <<>>} }
    \cup { CallFailure(k) : k \in {"http", "network"} }

\* ai.models.generateContent: text, and possibly a part with inlineData
GenerateContentResponses ==
    { [kind |-> "ok", content |-> c, inline |-> i] :
        c \in ChatContents, i \in {"none", "image/jpeg", "nomime"} }
    \cup { CallFailure("sdk") }

\* ai.models.generateImages: generatedImages with one image, or empty
GenerateImagesResponses ==
    { [kind |-> "ok", content |-> c, inline |-> "none"] : c \in {<<"bytes">>, <<>>} }
    \cup { CallFailure("sdk") }

IsFence(c) == c = "[fence]css" \/ c = "[fence]"

\* lines 387-388 and 403-404: both fence markers removed, then trim();
\* "[fence]" stands for the three backquotes of a markdown code fence
StripFences(css) == Trim(SelectSeq(css, LAMBDA c : ~IsFence(c)))

\* the API-key test and the provider dispatch that open each content operation
Enter(openaiCall, geminiCall) ==
    /\ pc = "start"
    /\ IF MissingApiKey(config)
       THEN Throw(ConfigError)
       ELSE /\ pc' = IF config.provider = "openai" THEN openaiCall ELSE geminiCall
            /\ UNCHANGED <<result, error>>
    /\ UNCHANGED <<op, config, endpoints, epIdx, models, pageToken, guard, lastError,
                   requests, tried, sent, failedNames, pureVars>>

\* generateChatResponse lines 232-247
generateChatResponse ==
    /\ op = "generateChatResponse"
    /\ Enter("callOpenAIChat", "generateContent")

\* generateFormattedContent lines 271-289
generateFormattedContent ==
    /\ op = "generateFormattedContent"
    /\ Enter("callOpenAIChat", "generateContent")

\* config.imageModel || 'imagen-4.0-generate-001', line 317
ImageModelName(model) == IF Truthy(model) THEN model ELSE <<"imagen", "-4.0-generate-001">>

\* modelName.toLowerCase().includes('imagen'), line 325
IsImagen(model) == Includes(ImageModelName(model), <<"imagen">>)

\* generateImage lines 307-325
generateImage ==
    /\ op = "generateImage"
    /\ Enter("callOpenAIImage",
             IF IsImagen(config.imageModel) THEN "generateImages" ELSE "generateContent")

\* generateThemeCSS lines 375-392
generateThemeCSS ==
    /\ op = "generateThemeCSS"
    /\ Enter("callOpenAIChat", "generateContent")

CallFrame == <<op, config, endpoints, epIdx, models, pageToken, guard, lastError,
               tried, sent, failedNames, pureVars>>

\* callOpenAIChat lines 14-43, and what its caller does with the reply
callOpenAIChat ==
    /\ pc = "callOpenAIChat"
    /\ requests' = requests + 1
    /\ \E resp \in ChatResponses :
         IF resp.kind = "ok"
         THEN LET reply == IF Truthy(resp.content) THEN resp.content
                           ELSE <<"AI returned empty response">>
              IN Return(IF op = "generateThemeCSS" THEN StripFences(reply) ELSE reply)
         ELSE FailRequest("callOpenAIChat", AdapterError("callOpenAIChat", resp.kind))
    /\ UNCHANGED CallFrame

\* callOpenAIImage lines 45-80
callOpenAIImage ==
    /\ pc = "callOpenAIImage"
    /\ requests' = requests + 1
    /\ \E resp \in ImageResponses :
         IF resp.kind = "ok"
         THEN Return(IF resp.content = <<"b64">>
                     THEN <<"data:image/png;base64,", "b64">>
                     ELSE resp.content)
         ELSE FailRequest("callOpenAIImage", AdapterError("callOpenAIImage", resp.kind))
    /\ UNCHANGED CallFrame

\* the Gemini branches that call ai.models.generateContent:
\* lines 248-268, 290-304, 342-371, 393-404
GeminiGenerateContent ==
    /\ pc = "generateContent"
    /\ requests' = requests + 1
    /\ \E resp \in GenerateContentResponses :
         IF resp.kind # "ok"
         THEN FailRequest("generateContent", AdapterError(op, resp.kind))
         ELSE CASE op = "generateChatResponse" ->
                     Return(IF Truthy(resp.content) THEN resp.content ELSE <<"AI: no content">>)
                [] op = "generateFormattedContent" ->
                     Return(IF Truthy(resp.content) THEN resp.content ELSE <<"content">>)
                [] op = "generateThemeCSS" ->
                     Return(StripFences(IF Truthy(resp.content) THEN resp.content ELSE <<>>))
                [] OTHER ->
                     IF resp.inline = "none"
                     THEN Throw(AdapterError(op, "no image"))
                     ELSE Return(<<"data:",
                                   IF resp.inline = "nomime" THEN "image/png" ELSE resp.inline,
                                   ";base64,", "b64">>)
    /\ UNCHANGED CallFrame

\* the Imagen branch of generateImage, lines 325-339 and 367-371
GeminiGenerateImages ==
    /\ pc = "generateImages"
    /\ requests' = requests + 1
    /\ \E resp \in GenerateImagesResponses :
         IF resp.kind # "ok"
         THEN FailRequest("generateImages", AdapterError(op, resp.kind))
         ELSE IF resp.content = <<>>
         THEN Throw(AdapterError(op, "no image"))
         ELSE Return(<<"data:image/jpeg;base64,", "b64">>)
    /\ UNCHANGED CallFrame

Next ==
    \/ listModels
    \/ OpenAIListModels
    \/ QueryAttemptInit
    \/ QueryParamPage
    \/ HeaderAttemptInit
    \/ HeaderPage
    \/ ThrowLastError
    \/ generateChatResponse
    \/ generateFormattedContent
    \/ generateImage
    \/ generateThemeCSS
    \/ callOpenAIChat
    \/ callOpenAIImage
    \/ GeminiGenerateContent
    \/ GeminiGenerateImages

Spec == Init /\ [][Next]_vars

----------------------------------------------------------------------------
(* Pure functions applied to one input: base URLs *)

Urls == {Undefined} \cup StringsOver(UrlAtoms, MaxUrlLen)

IdleCall ==
    /\ op = "none"
    /\ config = [provider |-> "gemini", apiKey |-> Undefined, baseUrl |-> Undefined,
                 imageModel |-> Undefined]
    /\ pc = "idle"
    /\ endpoints = <<>>
    /\ epIdx = 0
    /\ models = EmptyBag
    /\ pageToken = Undefined
    /\ guard = 0
    /\ lastError = Null
    /\ result = <<>>
    /\ error = Null
    /\ requests = 0
    /\ tried = <<>>
    /\ sent = {}
    /\ failedNames = {}

InitUrl ==
    /\ IdleCall
    /\ arg \in Urls
    /\ ret = <<>>
    /\ applied = "none"

\* callOpenAIChat line 15 (also lines 46, 118): the base URL a request is built on
Normalize ==
    /\ applied = "none"
    /\ ret' = normalizeBaseUrl(arg, OpenAIDefaultBase)
    /\ applied' = "once"
    /\ UNCHANGED <<arg, callVars>>

\* the same expression applied to its own output (a normalized base URL that is
\* saved as config.baseUrl is normalized again by the next call)
NormalizeAgain ==
    /\ applied = "once"
    /\ ret' = normalizeBaseUrl(ret, OpenAIDefaultBase)
    /\ applied' = "twice"
    /\ UNCHANGED <<arg, callVars>>

\* listModels lines 142-153
BuildEndpoints ==
    /\ applied = "none"
    /\ ret' = GeminiEndpoints(arg)
    /\ applied' = "endpoints"
    /\ UNCHANGED <<arg, callVars>>

NextUrl == Normalize \/ NormalizeAgain \/ BuildEndpoints

SpecUrl == InitUrl /\ [][NextUrl]_vars

----------------------------------------------------------------------------
(* Pure functions applied to one input: image sizes *)

Sizes == StringsOver(SizeChars, MaxSizeLen)

InitSize ==
    /\ IdleCall
    /\ arg \in Sizes
    /\ ret = <<>>
    /\ applied = "none"

\* callOpenAIImage lines 48-52
MapOpenAISize ==
    /\ applied = "none"
    /\ ret' = OpenAIImageSize(arg)
    /\ applied' = "size"
    /\ UNCHANGED <<arg, callVars>>

NextSize == MapOpenAISize

SpecSize == InitSize /\ [][NextSize]_vars

----------------------------------------------------------------------------
(* Properties *)

Range(q) == { q[i] : i \in DOMAIN q }

GeminiDiscovery == op = "listModels" /\ config.provider = "gemini"

InAttempt == pc \in {"query", "header"}

Canonical == << <<1, "query">>, <<1, "header">>, <<2, "query">>, <<2, "header">> >>

\* C1: in Gemini discovery, whatever the server answers, one endpoint/auth
\* attempt issues at most 20 page requests.
C1_AtMost20Pages == GeminiDiscovery => requests <= MaxPages

\* an attempt that asked for 20 pages, each answered with a next-page token, and
\* was then stopped by the guard
C1_Witness ==
    /\ GeminiDiscovery
    /\ pc = "returned"
    /\ requests = MaxPages
    /\ guard = MaxPages + 1
    /\ Truthy(pageToken)

\* C2 as stated: the entries one attempt accumulates never exceed 500.
C2_AtMost500 == GeminiDiscovery => BagCardinality(models) <= MaxModels

\* C2 amended: an attempt issues a page request only while the entries it has
\* accumulated so far number at most 500, so its count exceeds 500 by no more
\* than the entries of the last page it received.
C2_NoRequestBeyond500 ==
    [][GeminiDiscovery /\ InAttempt /\ requests' = requests + 1
          => BagCardinality(models) <= MaxModels]_vars

\* an attempt that went past 500 entries and was stopped for it, not by the
\* page guard, while the server still offered a next page
C2_Witness ==
    /\ GeminiDiscovery
    /\ pc = "returned"
    /\ BagCardinality(models) > MaxModels
    /\ guard <= MaxPages
    /\ Truthy(pageToken)

\* C3: the attempts run in the order (1, query), (1, header), (2, query),
\* (2, header), each one after the failure of the one before it; the first
\* attempt that succeeds returns, and no request is issued after that.
C3_OrderAndShortCircuit ==
    /\ [](GeminiDiscovery =>
            /\ Len(tried) <= Len(Canonical)
            /\ tried = SubSeq(Canonical, 1, Len(tried))
            /\ \A i \in DOMAIN tried : tried[i][1] <= Len(endpoints)
            /\ (Len(tried) >= 2 /\ requests >= 1 /\ (InAttempt \/ pc = "returned")
                  => lastError.origin = tried[Len(tried) - 1]))
    /\ [][GeminiDiscovery /\ pc = "returned" => UNCHANGED <<tried, requests, result>>]_vars

\* two candidate endpoints; the query-parameter attempt on the first got an HTTP
\* error, the header attempt on the first returned the list
C3_Witness ==
    /\ GeminiDiscovery
    /\ pc = "returned"
    /\ Len(endpoints) = 2
    /\ tried = << <<1, "query">>, <<1, "header">> >>
    /\ lastError.cause = "http"
    /\ result = << <<"a">> >>

\* C4: when every attempt fails, listModels throws the error of the last attempt
\* executed, the header attempt on the last endpoint, with the Gemini prefix, and
\* returns nothing; the "unknown failure" error is never thrown.
C4_LastErrorRaised ==
    GeminiDiscovery =>
        /\ error.type # "unknown"
        /\ (pc # "start" /\ Truthy(config.apiKey) => Len(endpoints) \in {1, 2})
        /\ (pc = "threw" /\ Truthy(config.apiKey) =>
              /\ error.type = "GeminiList"
              /\ error.origin = <<Len(endpoints), "header">>
              /\ error.cause \in FailureKinds
              /\ tried = SubSeq(Canonical, 1, 2 * Len(endpoints))
              /\ result = <<>>)

\* all four attempts failed, the last one on the network
C4_Witness ==
    /\ GeminiDiscovery
    /\ pc = "threw"
    /\ Len(tried) = 4
    /\ error.origin = <<2, "header">>
    /\ error.cause = "network"
    /\ error.hint

\* C5: with an empty or missing apiKey every operation, for either provider,
\* fails with the configuration error and issues no request.
C5_NoKeyNoRequest ==
    ~Truthy(config.apiKey) =>
        /\ requests = 0
        /\ tried = <<>>
        /\ pc \in {"start", "threw"}
        /\ (pc = "threw" => error = ConfigError /\ result = <<>>)

\* the chat operation of the OpenAI provider refused an empty key
C5_Witness ==
    /\ op = "generateChatResponse"
    /\ config.provider = "openai"
    /\ config.apiKey = <<>>
    /\ pc = "threw"
    /\ error = ConfigError
    /\ requests = 0

\* C6: outside the Gemini discovery a call with a key issues exactly one request;
\* the call is over, returned or thrown, as soon as that request is answered.
C6_OneRequestNoRetry ==
    ~GeminiDiscovery /\ Truthy(config.apiKey) =>
        /\ requests <= 1
        /\ (pc \in {"returned", "threw"} => requests = 1)
        /\ (requests = 1 => pc \in {"returned", "threw"})
        /\ (pc = "returned" => error = Null)

\* the one request of an OpenAI image generation failed and the call threw
C6_Witness ==
    /\ op = "generateImage"
    /\ config.provider = "openai"
    /\ pc = "threw"
    /\ requests = 1
    /\ error.cause = "http"

\* C10: every entry of the list Gemini discovery returns was received, under some
\* raw name, in a page of the attempt that returned; what a failed attempt had
\* accumulated is not in it.
C10_OnlySuccessfulAttempt ==
    GeminiDiscovery /\ pc = "returned" =>
        \A n \in Range(result) :
            \E r \in sent : Trim(stripGeminiModelPrefix(r)) = n

\* an attempt failed after it had accumulated a name that the returning attempt
\* never received, and the returned list does not have it
C10_Witness ==
    /\ GeminiDiscovery
    /\ pc = "returned"
    /\ result # <<>>
    /\ \E n \in failedNames : Trim(n) \notin Range(result)

\* C7 as stated: a non-blank base URL gives {base}/models, then {base}/v1beta/models
\* unless the base has a /v1beta segment; no base URL gives the default endpoint
\* alone; the list has 1 or 2 entries.
C7_EndpointList ==
    applied = "endpoints" =>
        LET nonBlank == Truthy(arg) /\ Trim(arg) # <<>>
            base == StripTrailingSlash(Trim(arg))
        IN /\ Len(ret) \in {1, 2}
           /\ (~nonBlank => ret = << GeminiDefaultEndpoint >>)
           /\ (nonBlank => ret[1] = base \o <<"/", "models">>)
           /\ (nonBlank /\ ~HasV1betaSegment(base)
                 => ret = << base \o <<"/", "models">>,
                             base \o <<"/", "v1beta", "/", "models">> >>)
           /\ (nonBlank /\ HasV1betaSegment(base) => Len(ret) = 1)

\* C8 as stated: normalizing a normalized base URL changes nothing.
C8_Idempotent ==
    [][applied = "once" /\ applied' = "twice" => ret' = ret]_vars

\* C9 as stated: a size containing 16:9 is sent as 1792x1024, a size containing
\* 1024 as 1024x1024, any other size as 1024x1024.
C9_SizeMapping ==
    applied = "size" =>
        /\ (Includes(arg, <<"1", "6", ":", "9">>) => ret = "1792x1024")
        /\ (Includes(arg, <<"1", "0", "2", "4">>) => ret = "1024x1024")
        /\ (~Includes(arg, <<"1", "6", ":", "9">>) /\ ~Includes(arg, <<"1", "0", "2", "4">>)
              => ret = "1024x1024")

====
